---- MODULE Spec2Model ----
(***************************************************************************)
(* A model of the influencer scraper (scrape_influencers.py) and of the    *)
(* two SQL renderers (generate_sql.py, generate_sql_lines.py).             *)
(*                                                                         *)
(* Text is modelled as a sequence of tokens.  A token is either a single   *)
(* character ("1", ",", ".", "k", " ", ...) or an indivisible word         *)
(* ("Followers", "sports", "www.liquorice.co.nz", ...).  Python's          *)
(* substring test `w in s` on a keyword w is the membership of the token w *)
(* in the sequence s, len(s) is the number of tokens, and string           *)
(* concatenation is \o.  The token "u0663" stands for the character        *)
(* U+0663 ARABIC-INDIC DIGIT THREE, a decimal digit outside ASCII.         *)
(***************************************************************************)
EXTENDS Naturals, Sequences, FiniteSets

VARIABLES
    \* clean_followers(text) called on its own
    text, cleaned, cf_returned,
    \* bio extraction of one profile page
    page_paragraphs, paragraphs, bio_text, bio_pc,
    \* listing collection: the anchors of the listing page, the loop position
    soup_links, link_i,
    \* URL -> image URL, in insertion order (a dict), as a sequence of items
    profiles_to_scrape,
    \* the profile scrape loop: position, records, and the trace of its
    \* requests, parses and sleeps
    loop_i, loop_pc, data, trace,
    \* the social-link scan of one profile page
    all_links, scan_i, scan_pc, found_followers,
    ig_handle, ig_followers, tt_handle, tt_followers,
    \* influencers_data.csv, and the two renderers reading it:
    \* generate_sql.py (sql_*) and generate_sql_lines.py (lines_*)
    csv_rows,
    sql_pc, sql_row, values, category, sql_stdout,
    lines_pc, lines_row, lines_category, lines_stdout

cleanVars == <<text, cleaned, cf_returned>>
bioVars   == <<page_paragraphs, paragraphs, bio_text, bio_pc>>
listVars  == <<soup_links, link_i>>
loopVars  == <<loop_i, loop_pc, data, trace>>
scanVars  == <<all_links, scan_i, scan_pc, found_followers,
                ig_handle, ig_followers, tt_handle, tt_followers>>
sqlVars   == <<csv_rows, sql_pc, sql_row, values, category, sql_stdout,
                lines_pc, lines_row, lines_category, lines_stdout>>
vars      == <<cleanVars, bioVars, listVars, profiles_to_scrape, loopVars,
                scanVars, sqlVars>>

notClean == <<bioVars, listVars, profiles_to_scrape, loopVars, scanVars, sqlVars>>
notBio   == <<cleanVars, listVars, profiles_to_scrape, loopVars, scanVars, sqlVars>>
notList  == <<cleanVars, bioVars, loopVars, scanVars, sqlVars>>
notLoop  == <<cleanVars, bioVars, listVars, scanVars, sqlVars>>
notSql   == <<cleanVars, bioVars, listVars, profiles_to_scrape, loopVars,
               scanVars>>
notScan  == <<cleanVars, bioVars, listVars, profiles_to_scrape, loopVars, sqlVars>>

(***************************************************************************)
(* Bounds of the model.                                                    *)
(***************************************************************************)
MaxTextLen == 3
MaxParagraphs == 6
MaxLinks == 2
MaxProfiles == 3
MaxAnchors == 2
MaxRows == 2
MaxUrlWords == 2

(***************************************************************************)
(* Characters.                                                             *)
(***************************************************************************)
AsciiDigits   == {"1", "5"}
UnicodeDigits == AsciiDigits \cup {"u0663"}
Whitespace    == {" "}
Magnitude     == {"k", "K", "m", "M"}

\* Python 3 `\d` on a str pattern: any Unicode decimal digit.
ReDigit == UnicodeDigits

\* str.strip(): drop leading and trailing whitespace.
RECURSIVE lstrip(_)
lstrip(s) == IF s # <<>> /\ Head(s) \in Whitespace THEN lstrip(Tail(s)) ELSE s

RECURSIVE rstrip(_)
rstrip(s) ==
    IF s # <<>> /\ s[Len(s)] \in Whitespace
    THEN rstrip(SubSeq(s, 1, Len(s) - 1))
    ELSE s

strip(s) == rstrip(lstrip(s))

\* The shape ^[D,]+(\.D+)?[kKmM]?$ for a set D of digits: s[1..i] is the [D,]+
\* part, s[i+1..j] the optional (\.D+) part, s[j+1..] the optional [kKmM].
CountShape(s, D) ==
    \E i \in 1..Len(s) : \E j \in i..Len(s) :
        /\ \A n \in 1..i : s[n] \in D \/ s[n] = ","
        /\ \/ j = i
           \/ /\ j >= i + 2
              /\ s[i + 1] = "."
              /\ \A n \in (i + 2)..j : s[n] \in D
        /\ \/ Len(s) = j
           \/ Len(s) = j + 1 /\ s[j + 1] \in Magnitude

\* re.search(r'^[\d,]+(\.\d+)?[kKmM]?$', s)
FollowersRe(s) == CountShape(s, ReDigit)

clean_followers(t) ==
    LET stripped == strip(t)
    IN  IF FollowersRe(stripped) THEN stripped ELSE <<>>

(***************************************************************************)
(* clean_followers on arbitrary short texts.                               *)
(***************************************************************************)
TextChars == AsciiDigits \cup UnicodeDigits \cup Whitespace
                \cup {",", ".", "k", "M", "x"}

RECURSIVE SeqsUpTo(_, _)
SeqsUpTo(S, n) ==
    IF n = 0 THEN {<<>>}
    ELSE LET shorter == SeqsUpTo(S, n - 1)
         IN  shorter \cup {Append(s, c) : s \in shorter, c \in S}

BioIdle ==
    /\ page_paragraphs = <<>>
    /\ paragraphs = <<>>
    /\ bio_text = <<>>
    /\ bio_pc = "idle"

ListIdle ==
    /\ soup_links = <<>>
    /\ link_i = 0

LoopIdle ==
    /\ loop_i = 0
    /\ loop_pc = "idle"
    /\ data = <<>>
    /\ trace = <<>>

SqlIdle ==
    /\ csv_rows = <<>>
    /\ sql_pc = "idle"
    /\ sql_row = 0
    /\ values = <<>>
    /\ category = "None"
    /\ sql_stdout = <<>>
    /\ lines_pc = "idle"
    /\ lines_row = 0
    /\ lines_category = "None"
    /\ lines_stdout = <<>>

ScanIdle ==
    /\ all_links = <<>>
    /\ scan_i = 0
    /\ scan_pc = "idle"
    /\ found_followers = <<>>
    /\ ig_handle = <<>>
    /\ ig_followers = <<>>
    /\ tt_handle = <<>>
    /\ tt_followers = <<>>

CleanIdle ==
    /\ text = <<>>
    /\ cleaned = <<>>
    /\ cf_returned = FALSE

InitClean ==
    /\ text \in SeqsUpTo(TextChars, MaxTextLen)
    /\ cleaned = <<>>
    /\ cf_returned = FALSE
    /\ BioIdle
    /\ ListIdle
    /\ profiles_to_scrape = <<>>
    /\ LoopIdle
    /\ ScanIdle
    /\ SqlIdle

Call_clean_followers ==
    /\ ~cf_returned
    /\ cleaned' = clean_followers(text)
    /\ cf_returned' = TRUE
    /\ UNCHANGED <<text, notClean>>

NextClean == Call_clean_followers

\* C4: clean_followers returns the trimmed text when the trimmed text matches
\* ^[0-9,]+(\.[0-9]+)?[kKmM]?$ and the empty string for every other text.
C4_AsciiPatternDecides ==
    cf_returned =>
        cleaned = IF CountShape(strip(text), AsciiDigits)
                  THEN strip(text) ELSE <<>>

\* C5: every text clean_followers accepts contains at least one digit.
C5_AcceptedHasDigit ==
    (cf_returned /\ cleaned # <<>>) =>
        \E n \in 1..Len(cleaned) : cleaned[n] \in UnicodeDigits

SpecClean == InitClean /\ [][NextClean]_vars

(***************************************************************************)
(* Bio extraction (scrape_influencers.py lines 83-96).  The nested loop    *)
(* `for div in content_divs: for p in div.find_all('p')` visits the        *)
(* paragraphs of the page one after the other, container by container;    *)
(* page_paragraphs is the sequence of paragraphs visited so far.           *)
(***************************************************************************)
BioLimit == 5

BioTexts ==
    { <<"hello">>, <<" ", "bye", " ">>, <<" ">>,
      <<"my", "Followers">>, <<"TikTok">>, <<"instagram">>,
      <<"Contact", "x">>, <<"1", ".", "2", "k">> }

\* str.upper(), token by token.
UpperToken(c) ==
    CASE c = "Followers" -> "FOLLOWERS"
      [] c = "TikTok"    -> "TIKTOK"
      [] c = "instagram" -> "INSTAGRAM"
      [] c = "Contact"   -> "CONTACT"
      [] c = "hello"     -> "HELLO"
      [] c = "bye"       -> "BYE"
      [] c = "my"        -> "MY"
      [] c = "x"         -> "X"
      [] c = "k"         -> "K"
      [] c = "m"         -> "M"
      [] OTHER           -> c

\* The text compared as it is written.
upper_unchanged(s) == s

upper(s) == [n \in DOMAIN s |-> UpperToken(s[n])]

\* `w in s` for a keyword w.
Contains(s, w) == \E n \in DOMAIN s : s[n] = w

\* p.get_text(strip=True) of a paragraph holding one text node.
get_text(p) == strip(p)

\* re.match(r'^[\d,.]+[kKmM]?$', s)
BioCountRe(s) ==
    \E i \in 1..Len(s) :
        /\ \A n \in 1..i : s[n] \in ReDigit \/ s[n] \in {",", "."}
        /\ \/ Len(s) = i
           \/ Len(s) = i + 1 /\ s[i + 1] \in Magnitude

\* The body of the inner loop on paragraph p: the value of `paragraphs` after
\* it, given its value ps before it (each `continue` leaves ps as it is).
VisitedParagraph(ps, p) ==
    LET line       == get_text(p)
        upper_text == upper(line)
    IN  IF line = <<>> THEN ps
        ELSE IF Contains(upper_text, "TIKTOK") \/ Contains(upper_text, "INSTAGRAM")
        THEN ps
        ELSE IF Contains(upper_text, "FOLLOWERS") \/ Contains(upper_text, "CONTACT")
        THEN ps
        ELSE IF BioCountRe(line) THEN ps
        ELSE Append(ps, line)

\* paragraphs[:5]
Slice(ps, n) == SubSeq(ps, 1, IF Len(ps) < n THEN Len(ps) ELSE n)

\* " ".join(ps)
RECURSIVE SpaceJoin(_)
SpaceJoin(ps) ==
    IF ps = <<>> THEN <<>>
    ELSE IF Len(ps) = 1 THEN ps[1]
    ELSE ps[1] \o <<" ">> \o SpaceJoin(Tail(ps))

InitBio ==
    /\ page_paragraphs = <<>>
    /\ paragraphs = <<>>
    /\ bio_text = <<>>
    /\ bio_pc = "loop"
    /\ CleanIdle
    /\ ListIdle
    /\ profiles_to_scrape = <<>>
    /\ LoopIdle
    /\ ScanIdle
    /\ SqlIdle

\* for div in content_divs: for p in div.find_all('p'): the next paragraph.
VisitParagraph ==
    /\ bio_pc = "loop"
    /\ Len(page_paragraphs) < MaxParagraphs
    /\ \E p \in BioTexts :
        /\ page_paragraphs' = Append(page_paragraphs, p)
        /\ paragraphs' = VisitedParagraph(paragraphs, p)
    /\ UNCHANGED <<bio_text, bio_pc, notBio>>

\* bio_text = " ".join(paragraphs[:5])
JoinBio ==
    /\ bio_pc = "loop"
    /\ bio_text' = SpaceJoin(Slice(paragraphs, BioLimit))
    /\ bio_pc' = "done"
    /\ UNCHANGED <<page_paragraphs, paragraphs, notBio>>

NextBio == VisitParagraph \/ JoinBio

SpecBio == InitBio /\ [][NextBio]_vars

\* The filter as the claim words it.
KeywordCasings ==
    { "TikTok", "TIKTOK", "tiktok", "Instagram", "INSTAGRAM", "instagram",
      "Followers", "FOLLOWERS", "followers", "Contact", "CONTACT", "contact" }

CountToken(s) ==
    LET body == IF s # <<>> /\ s[Len(s)] \in Magnitude
                THEN SubSeq(s, 1, Len(s) - 1) ELSE s
    IN  /\ body # <<>>
        /\ \A n \in DOMAIN body : body[n] \in UnicodeDigits \cup {",", "."}

Survives(p) ==
    /\ strip(p) # <<>>
    /\ \A n \in DOMAIN p : p[n] \notin KeywordCasings
    /\ ~CountToken(strip(p))

RECURSIVE Survivors(_)
Survivors(ps) ==
    IF ps = <<>> THEN <<>>
    ELSE (IF Survives(Head(ps)) THEN <<strip(Head(ps))>> ELSE <<>>)
             \o Survivors(Tail(ps))

RECURSIVE Spaced(_, _)
Spaced(ps, n) ==
    IF ps = <<>> \/ n = 0 THEN <<>>
    ELSE IF Len(ps) = 1 \/ n = 1 THEN Head(ps)
    ELSE Head(ps) \o <<" ">> \o Spaced(Tail(ps), n - 1)

\* C6: the bio is the single-space concatenation of the first five visited
\* paragraphs that survive the filter; no paragraph holding a keyword in any
\* letter case and no sixth survivor appears in it.
C6_BioIsFirstFiveSurvivors ==
    bio_pc = "done" =>
        /\ bio_text = Spaced(Survivors(page_paragraphs), 5)
        /\ \A n \in DOMAIN bio_text : bio_text[n] \notin KeywordCasings

C6_Witness ==
    /\ bio_pc = "done"
    /\ Len(Survivors(page_paragraphs)) > 5
    /\ page_paragraphs[1] # page_paragraphs[2]
    /\ Len(bio_text) = 9

(***************************************************************************)
(* Listing collection (scrape_influencers.py lines 25-61).  A URL is the   *)
(* sequence of its parts, cut so that base_url is three tokens and every   *)
(* URL that has base_url as a character prefix has them as its first three *)
(* tokens: "https://www.liquorice.co.nz.evil.com/talent/c" is             *)
(* <<"https:", "//", "www.liquorice.co.nz", ".evil.com", "/talent/c">>.    *)
(***************************************************************************)
base_url == <<"https:", "//", "www.liquorice.co.nz">>

None == "None"

Schemes == {"https:", "mailto:", "tel:"}

\* Tokens that begin a path, a query or nothing of the authority.
PathTokens ==
    { "/", "/talent/a", "/talent/b", "/talent/c", "/contact", "/x",
      "/a.jpg", "/b.jpg", "?to=" }

ListingHrefs ==
    { <<"/talent/a">>,
      <<"talent/b">>,
      <<"https:", "//", "www.liquorice.co.nz", "/talent/a">>,
      <<"https:", "//", "www.liquorice.co.nz", ".evil.com", "/talent/c">>,
      <<"https:", "//", "other.example", "/x">>,
      <<"/contact">>,
      <<"/x", "?to=", "mailto:">>,
      <<"mailto:", "a@b">> }

AncestorChains ==
    { << [name |-> "div", id |-> None], [name |-> "body", id |-> None] >>,
      << [name |-> "li", id |-> None], [name |-> "nav", id |-> None] >>,
      << [name |-> "div", id |-> "footer"] >> }

\* link.find('img'): whether an <img> is found, and its data-src and src
\* attributes (an attribute that is absent or empty is <<>>; both are falsy).
ListingImgs ==
    { [found |-> FALSE, data_src |-> <<>>, src |-> <<>>],
      [found |-> TRUE, data_src |-> <<>>, src |-> <<>>],
      [found |-> TRUE, data_src |-> <<"//", "cdn.example", "/a.jpg">>,
       src |-> <<"https:", "//", "cdn.example", "/b.jpg">>],
      [found |-> TRUE, data_src |-> <<>>,
       src |-> <<"https:", "//", "cdn.example", "/b.jpg">>] }

ListingLinks == [href : ListingHrefs, parents : AncestorChains, img : ListingImgs]

\* s.startswith(prefix)
startswith(s, prefix) ==
    Len(s) >= Len(prefix) /\ SubSeq(s, 1, Len(prefix)) = prefix

\* urllib.parse.urljoin(base, href) for a base without a path.
urljoin(base, href) ==
    IF href = <<>> THEN base
    ELSE IF Head(href) \in Schemes THEN href
    ELSE IF Head(href) = "//" THEN <<Head(base)>> \o href
    ELSE IF Head(href) \in PathTokens THEN base \o href
    ELSE base \o <<"/">> \o href

\* s.replace(old, ""): every occurrence of old is removed.
RECURSIVE remove(_, _)
remove(s, old) ==
    IF s = <<>> THEN <<>>
    ELSE IF startswith(s, old) THEN remove(SubSeq(s, Len(old) + 1, Len(s)), old)
    ELSE <<Head(s)>> \o remove(Tail(s), old)

ExcludedPaths ==
    { <<>>, <<"/">>, <<"/influencers-nz">>, <<"/contact">>, <<"/who-are-we">>,
      <<"/how-influencer-marketing-works">> }

full_url_of(link) == urljoin(base_url, link.href)

\* line 34: if not full_url.startswith(base_url): continue
OffSite(link) == ~startswith(full_url_of(link), base_url)

\* lines 37-39
ExcludedPage(link) ==
    \/ remove(full_url_of(link), base_url) \in ExcludedPaths
    \/ Contains(link.href, "mailto:")
    \/ Contains(link.href, "tel:")

\* lines 43-50: some ancestor is a header, footer or nav, by tag or by id
is_nav_footer(link) ==
    \E n \in DOMAIN link.parents :
        \/ link.parents[n].name \in {"header", "footer", "nav"}
        \/ link.parents[n].id \in {"header", "footer", "mobileNav"}

\* line 56: img.get('data-src') or img.get('src')
img_src_of(img) == IF img.data_src # <<>> THEN img.data_src ELSE img.src

\* lines 55, 57: if img: ... if img_src:
HasImage(link) == link.img.found /\ img_src_of(link.img) # <<>>

\* lines 58-59
normalised(src) == IF startswith(src, <<"//">>) THEN <<"https:">> \o src ELSE src

\* d[key] = value on a dict kept as the sequence of its items
SetItem(d, key, value) ==
    IF \E n \in DOMAIN d : d[n].url = key
    THEN [n \in DOMAIN d |->
             IF d[n].url = key THEN [url |-> key, image_url |-> value] ELSE d[n]]
    ELSE Append(d, [url |-> key, image_url |-> value])

InitListing ==
    /\ soup_links \in SeqsUpTo(ListingLinks, MaxLinks)
    /\ link_i = 0
    /\ profiles_to_scrape = <<>>
    /\ CleanIdle
    /\ BioIdle
    /\ LoopIdle
    /\ ScanIdle
    /\ SqlIdle

CurrentLink == soup_links[link_i + 1]

InListing == link_i < Len(soup_links)

SkipLink == link_i' = link_i + 1 /\ UNCHANGED <<soup_links, profiles_to_scrape, notList>>

SkipOffSite == InListing /\ OffSite(CurrentLink) /\ SkipLink

SkipExcludedPage ==
    /\ InListing
    /\ ~OffSite(CurrentLink)
    /\ ExcludedPage(CurrentLink)
    /\ SkipLink

SkipNavFooter ==
    /\ InListing
    /\ ~OffSite(CurrentLink)
    /\ ~ExcludedPage(CurrentLink)
    /\ is_nav_footer(CurrentLink)
    /\ SkipLink

SkipNoImage ==
    /\ InListing
    /\ ~OffSite(CurrentLink)
    /\ ~ExcludedPage(CurrentLink)
    /\ ~is_nav_footer(CurrentLink)
    /\ ~HasImage(CurrentLink)
    /\ SkipLink

AddProfile ==
    /\ InListing
    /\ ~OffSite(CurrentLink)
    /\ ~ExcludedPage(CurrentLink)
    /\ ~is_nav_footer(CurrentLink)
    /\ HasImage(CurrentLink)
    /\ profiles_to_scrape' =
           SetItem(profiles_to_scrape, full_url_of(CurrentLink),
                   normalised(img_src_of(CurrentLink.img)))
    /\ link_i' = link_i + 1
    /\ UNCHANGED <<soup_links, notList>>

NextListing ==
    SkipOffSite \/ SkipExcludedPage \/ SkipNavFooter \/ SkipNoImage \/ AddProfile

SpecListing == InitListing /\ [][NextListing]_vars

\* The origin of a URL: its scheme and its host (the tokens of the authority,
\* from after "//" up to the first path or query token).
RECURSIVE HostTokens(_)
HostTokens(s) ==
    IF s = <<>> \/ Head(s) \in PathTokens THEN <<>>
    ELSE <<Head(s)>> \o HostTokens(Tail(s))

Origin(u) ==
    IF Len(u) >= 2 /\ u[2] = "//"
    THEN [scheme |-> u[1], host |-> HostTokens(SubSeq(u, 3, Len(u)))]
    ELSE [scheme |-> None, host |-> <<>>]

\* C9: every URL key of the candidate mapping has the scheme and the host of
\* base_url.
C9_KeysShareOrigin ==
    \A n \in DOMAIN profiles_to_scrape :
        Origin(profiles_to_scrape[n].url) = Origin(base_url)

(***************************************************************************)
(* The profile scrape loop (scrape_influencers.py lines 66-177).  One       *)
(* iteration is a GET, then the parse of the page, then data.append and    *)
(* time.sleep, all inside one try; `continue` and the except clause both   *)
(* go on to the next item.  trace records every requests.get with its     *)
(* outcome, every parse with its outcome, and every time.sleep.            *)
(***************************************************************************)
ProfileUrls ==
    { base_url \o <<"/talent/a">>, base_url \o <<"/talent/b">>,
      base_url \o <<"/talent/c">>, base_url \o <<"/x">> }

ProfileImages == { <<"https:", "//", "cdn.example", "/a.jpg">> }

ProfileItems == [url : ProfileUrls, image_url : ProfileImages]

\* The keys of a dict are distinct.
IsDict(d) == \A m, n \in DOMAIN d : d[m].url = d[n].url => m = n

InitLoop ==
    /\ profiles_to_scrape \in {d \in SeqsUpTo(ProfileItems, MaxProfiles) : IsDict(d)}
    /\ loop_i = 0
    /\ loop_pc = "get"
    /\ data = <<>>
    /\ trace = <<>>
    /\ CleanIdle
    /\ BioIdle
    /\ ListIdle
    /\ ScanIdle
    /\ SqlIdle

CurrentItem == profiles_to_scrape[loop_i + 1]

Event(call, url, result) == [call |-> call, url |-> url, result |-> result]

\* The next iteration of the for loop (or its end).
NextItem(n) == [loop_i |-> n + 1, loop_pc |-> "get"]

\* line 75: continue
Continue(n) == NextItem(n)

\* The exception leaves the loop.
ExceptAborts(n) == [loop_i |-> n, loop_pc |-> "aborted"]

\* lines 176-177: except Exception as e: print(...)
Except(n) == NextItem(n)

\* line 174, then the end of the loop body
AfterSleep(n) == NextItem(n)

Getting == loop_pc = "get" /\ loop_i < Len(profiles_to_scrape)

\* line 72 returns a response with status 200
GetOk ==
    /\ Getting
    /\ trace' = Append(trace, Event("get", CurrentItem.url, "200"))
    /\ loop_pc' = "parse"
    /\ UNCHANGED <<loop_i, data, profiles_to_scrape, notLoop>>

\* line 72 returns a response with another status: lines 73-75
GetFailedStatus ==
    /\ Getting
    /\ \E status \in {"404", "500"} :
           trace' = Append(trace, Event("get", CurrentItem.url, status))
    /\ loop_i' = Continue(loop_i).loop_i
    /\ loop_pc' = Continue(loop_i).loop_pc
    /\ UNCHANGED <<data, profiles_to_scrape, notLoop>>

\* line 72 raises (a timeout, a connection error)
GetRaises ==
    /\ Getting
    /\ \E e \in {"Timeout", "ConnectionError"} :
           trace' = Append(trace, Event("get", CurrentItem.url, e))
    /\ loop_i' = Except(loop_i).loop_i
    /\ loop_pc' = Except(loop_i).loop_pc
    /\ UNCHANGED <<data, profiles_to_scrape, notLoop>>

\* lines 77-173: the page is parsed and its record appended
ParseOk ==
    /\ loop_pc = "parse"
    /\ trace' = Append(trace, Event("parse", CurrentItem.url, "ok"))
    /\ data' = Append(data, [page_url |-> CurrentItem.url,
                             image_url |-> CurrentItem.image_url])
    /\ loop_pc' = "sleep"
    /\ UNCHANGED <<loop_i, profiles_to_scrape, notLoop>>

\* lines 77-173 raise before data.append
ParseRaises ==
    /\ loop_pc = "parse"
    /\ trace' = Append(trace, Event("parse", CurrentItem.url, "Exception"))
    /\ loop_i' = Except(loop_i).loop_i
    /\ loop_pc' = Except(loop_i).loop_pc
    /\ UNCHANGED <<data, profiles_to_scrape, notLoop>>

\* line 174: time.sleep(0.5)
Sleep ==
    /\ loop_pc = "sleep"
    /\ trace' = Append(trace, Event("sleep", <<>>, "None"))
    /\ loop_i' = AfterSleep(loop_i).loop_i
    /\ loop_pc' = AfterSleep(loop_i).loop_pc
    /\ UNCHANGED <<data, profiles_to_scrape, notLoop>>

\* the for loop is exhausted: line 179 onwards
LoopEnds ==
    /\ loop_pc = "get"
    /\ loop_i = Len(profiles_to_scrape)
    /\ loop_pc' = "save"
    /\ UNCHANGED <<loop_i, data, trace, profiles_to_scrape, notLoop>>

NextLoop ==
    GetOk \/ GetFailedStatus \/ GetRaises \/ ParseOk \/ ParseRaises \/ Sleep
        \/ LoopEnds

SpecLoop == InitLoop /\ [][NextLoop]_vars

\* C1: between the GET of one candidate and the GET of the next there is a
\* sleep, whatever the outcome of the first.
C1_DelayAfterEveryAttempt ==
    \A m, n \in DOMAIN trace :
        (m < n /\ trace[m].call = "get" /\ trace[n].call = "get") =>
            \E k \in (m + 1)..(n - 1) : trace[k].call = "sleep"

\* The part of a trace made of its events of one kind.
RECURSIVE EventsOf(_, _)
EventsOf(t, call) ==
    IF t = <<>> THEN <<>>
    ELSE (IF Head(t).call = call THEN <<Head(t)>> ELSE <<>>)
             \o EventsOf(Tail(t), call)

Succeeded(t, url) ==
    \E n \in DOMAIN t : t[n] = Event("parse", url, "ok")

\* One record for each item of d that succeeded in trace t, in the order of d.
RECURSIVE RecordsDue(_, _)
RecordsDue(d, t) ==
    IF d = <<>> THEN <<>>
    ELSE (IF Succeeded(t, Head(d).url)
          THEN <<[page_url |-> Head(d).url, image_url |-> Head(d).image_url]>>
          ELSE <<>>)
             \o RecordsDue(Tail(d), t)

\* C2: the loop requests the candidates once each in the order of the
\* mapping, goes through all of them whatever the outcomes, and data holds
\* one record per candidate that was fetched and parsed, in that order.
C2_EveryCandidateOnceInOrder ==
    LET gets == EventsOf(trace, "get")
    IN  /\ loop_pc # "aborted"
        /\ Len(gets) <= Len(profiles_to_scrape)
        /\ \A n \in DOMAIN gets : gets[n].url = profiles_to_scrape[n].url
        /\ data = RecordsDue(profiles_to_scrape, trace)
        /\ loop_pc = "save" => Len(gets) = Len(profiles_to_scrape)
        /\ \A n \in DOMAIN gets :
               (gets[n].result # "200" =>
                    ~Succeeded(trace, gets[n].url))

C2_Witness ==
    /\ loop_pc = "save"
    /\ Len(profiles_to_scrape) = 3
    /\ Len(data) = 1
    /\ data[1].page_url = profiles_to_scrape[2].url
    /\ \E n \in DOMAIN trace : trace[n].result = "Timeout"
    /\ \E n \in DOMAIN trace : trace[n].result = "Exception"

(***************************************************************************)
(* The social-link scan of one profile page (scrape_influencers.py lines   *)
(* 99-161).  An anchor is its raw href, its next sibling node (nothing, a  *)
(* text node, or a tag) and the texts of the elements that follow its      *)
(* parent.  Each iteration runs the Instagram branch and then the TikTok   *)
(* branch; a branch is the search (found_followers) and then the store.    *)
(***************************************************************************)
SiblingCutoff == 20

LongText == [n \in 1..(SiblingCutoff + 1) |-> "x"]

\* str.lower(), token by token.
LowerToken(c) ==
    CASE c = "Instagram.com" -> "instagram.com"
      [] c = "TikTok.com"    -> "tiktok.com"
      [] c = "/B"            -> "/b"
      [] c = "/@D"           -> "/@d"
      [] OTHER               -> c

lower(s) == [n \in DOMAIN s |-> LowerToken(s[n])]

AnchorHrefs ==
    { <<"https:", "//", "instagram.com", "/a">>,
      <<"https:", "//", "www.", "Instagram.com", "/B">>,
      <<"https:", "//", "tiktok.com", "/@c">>,
      <<"https:", "//", "www.", "TikTok.com", "/@D">>,
      <<"https:", "//", "example.com", "/">> }

NextSiblings ==
    { [kind |-> "none", text |-> <<>>],
      [kind |-> "tag", text |-> <<>>],
      [kind |-> "text", text |-> <<" ", "1", "k", " ">>],
      [kind |-> "text", text |-> <<" ", "x">>] }

ParentSiblings ==
    { <<>>,
      << <<"x">>, <<" ", "5">> >>,
      << LongText, <<"1", "2">> >> }

Anchors ==
    [href : AnchorHrefs, next_sibling : NextSiblings,
     parent_siblings : ParentSiblings]

\* lines 113-116: the next sibling, when it is a non-empty text node
TextTest(link) ==
    IF link.next_sibling.kind = "text" /\ link.next_sibling.text # <<>>
    THEN clean_followers(link.next_sibling.text)
    ELSE <<>>

\* lines 119-128: the elements after the parent, up to the first count or the
\* first text longer than the cutoff
RECURSIVE SiblingWalk(_)
SiblingWalk(siblings) ==
    IF siblings = <<>> THEN <<>>
    ELSE LET stext   == get_text(Head(siblings))
             counted == clean_followers(stext)
         IN  IF counted # <<>> THEN counted
             ELSE IF Len(stext) > SiblingCutoff THEN <<>>
             ELSE SiblingWalk(Tail(siblings))

\* The two steps as alternatives: the walk only when the next sibling is not
\* text.
FindFollowersEitherOr(link) ==
    IF link.next_sibling.kind = "text" THEN TextTest(link)
    ELSE SiblingWalk(link.parent_siblings)

\* lines 111-128 (and 139-155): found_followers after the two steps
FindFollowers(link) ==
    LET found == TextTest(link)
    IN  IF found = <<>> THEN SiblingWalk(link.parent_siblings) ELSE found

\* lines 130-131 (and 157-158)
StoredFollowers(followers, found) == IF found # <<>> THEN found ELSE followers

\* The handle of the last matching anchor instead of the first.
StoredHandleLastSeen(handle, found, href) == href

\* lines 130-134 (and 157-161)
StoredHandle(handle, found, href) ==
    IF found # <<>> THEN href
    ELSE IF handle = <<>> THEN href
    ELSE handle

\* lines 106, 109, 137
Matches(link, domain) == Contains(lower(link.href), domain)

InitScan ==
    /\ all_links \in SeqsUpTo(Anchors, MaxAnchors)
    /\ scan_i = 0
    /\ scan_pc = "instagram"
    /\ found_followers = <<>>
    /\ ig_handle = <<>>
    /\ ig_followers = <<>>
    /\ tt_handle = <<>>
    /\ tt_followers = <<>>
    /\ CleanIdle
    /\ BioIdle
    /\ ListIdle
    /\ profiles_to_scrape = <<>>
    /\ LoopIdle
    /\ SqlIdle

link == all_links[scan_i + 1]

InScan == scan_i < Len(all_links)

\* lines 109-128
SearchInstagram ==
    /\ scan_pc = "instagram" /\ InScan
    /\ Matches(link, "instagram.com") /\ ig_followers = <<>>
    /\ found_followers' = FindFollowers(link)
    /\ scan_pc' = "instagram_store"
    /\ UNCHANGED <<all_links, scan_i, ig_handle, ig_followers, tt_handle,
                   tt_followers, notScan>>

\* lines 130-134
StoreInstagram ==
    /\ scan_pc = "instagram_store"
    /\ ig_followers' = StoredFollowers(ig_followers, found_followers)
    /\ ig_handle' = StoredHandle(ig_handle, found_followers, link.href)
    /\ scan_pc' = "tiktok"
    /\ UNCHANGED <<all_links, scan_i, found_followers, tt_handle, tt_followers,
                   notScan>>

\* lines 109-110 when one of the two tests fails
SkipInstagram ==
    /\ scan_pc = "instagram" /\ InScan
    /\ ~(Matches(link, "instagram.com") /\ ig_followers = <<>>)
    /\ scan_pc' = "tiktok"
    /\ UNCHANGED <<all_links, scan_i, found_followers, ig_handle, ig_followers,
                   tt_handle, tt_followers, notScan>>

\* lines 137-155
SearchTikTok ==
    /\ scan_pc = "tiktok"
    /\ Matches(link, "tiktok.com") /\ tt_followers = <<>>
    /\ found_followers' = FindFollowers(link)
    /\ scan_pc' = "tiktok_store"
    /\ UNCHANGED <<all_links, scan_i, ig_handle, ig_followers, tt_handle,
                   tt_followers, notScan>>

\* lines 157-161, then the next anchor
StoreTikTok ==
    /\ scan_pc = "tiktok_store"
    /\ tt_followers' = StoredFollowers(tt_followers, found_followers)
    /\ tt_handle' = StoredHandle(tt_handle, found_followers, link.href)
    /\ scan_i' = scan_i + 1
    /\ scan_pc' = "instagram"
    /\ UNCHANGED <<all_links, found_followers, ig_handle, ig_followers, notScan>>

\* lines 137-138 when one of the two tests fails, then the next anchor
SkipTikTok ==
    /\ scan_pc = "tiktok"
    /\ ~(Matches(link, "tiktok.com") /\ tt_followers = <<>>)
    /\ scan_i' = scan_i + 1
    /\ scan_pc' = "instagram"
    /\ UNCHANGED <<all_links, found_followers, ig_handle, ig_followers,
                   tt_handle, tt_followers, notScan>>

\* the loop over all_links is exhausted: line 163
ScanEnds ==
    /\ scan_pc = "instagram" /\ ~InScan
    /\ scan_pc' = "record"
    /\ UNCHANGED <<all_links, scan_i, found_followers, ig_handle, ig_followers,
                   tt_handle, tt_followers, notScan>>

NextScan ==
    SearchInstagram \/ StoreInstagram \/ SkipInstagram \/ SearchTikTok
        \/ StoreTikTok \/ SkipTikTok \/ ScanEnds

SpecScan == InitScan /\ [][NextScan]_vars

Least(S) == CHOOSE n \in S : \A m \in S : n <= m

\* What the claim says of one platform after the first k anchors.
PlatformFields(domain, k, handle, followers) ==
    LET matching == {n \in 1..k : Matches(all_links[n], domain)}
        yielding == {n \in matching : FindFollowers(all_links[n]) # <<>>}
    IN  IF yielding # {}
        THEN /\ followers = FindFollowers(all_links[Least(yielding)])
             /\ handle = all_links[Least(yielding)].href
        ELSE IF matching # {}
        THEN /\ followers = <<>>
             /\ handle = all_links[Least(matching)].href
        ELSE followers = <<>> /\ handle = <<>>

\* C3: per platform, the follower count and the handle are those of the first
\* matching anchor that yields a count; without such an anchor the count is
\* empty and the handle is the href of the first matching anchor; without a
\* matching anchor both are empty.  (After every anchor, and at the end.)
C3_FirstYieldingAnchorWins ==
    scan_pc \in {"instagram", "record"} =>
        /\ PlatformFields("instagram.com", scan_i, ig_handle, ig_followers)
        /\ PlatformFields("tiktok.com", scan_i, tt_handle, tt_followers)

C3_Witness ==
    /\ scan_pc = "record"
    /\ Len(all_links) = 2
    /\ Matches(all_links[1], "instagram.com")
    /\ Matches(all_links[2], "instagram.com")
    /\ all_links[1].href # all_links[2].href
    /\ FindFollowers(all_links[1]) # <<>>
    /\ FindFollowers(all_links[2]) # <<>>
    /\ FindFollowers(all_links[1]) # FindFollowers(all_links[2])
    /\ ig_handle = all_links[1].href

Searched == scan_pc \in {"instagram_store", "tiktok_store"}

\* C10 as stated: when the next sibling is plain text, only that text is
\* tested, so the count found is what the recognizer makes of that text.
C10_TextOrWalk ==
    (Searched /\ link.next_sibling.kind = "text") =>
        found_followers = clean_followers(link.next_sibling.text)

\* C10 amended: the walk is the fallback of the text test.  Text that the
\* recognizer accepts gives the count alone; in every other case (no next
\* sibling, a tag, text that the recognizer rejects) the count is the one
\* the walk over the parent's following siblings finds.
C10_WalkIsFallback ==
    Searched =>
        IF /\ link.next_sibling.kind = "text"
           /\ clean_followers(link.next_sibling.text) # <<>>
        THEN found_followers = clean_followers(link.next_sibling.text)
        ELSE found_followers = SiblingWalk(link.parent_siblings)

C10_Witness ==
    /\ Searched
    /\ link.next_sibling.kind = "text"
    /\ clean_followers(link.next_sibling.text) = <<>>
    /\ found_followers # <<>>

(***************************************************************************)
(* The two SQL renderers over one CSV file: generate_sql.py prints the     *)
(* DELETE and then one INSERT with all the value tuples, and               *)
(* generate_sql_lines.py prints the DELETE and then one INSERT per row.    *)
(* A line of output is a sequence of tokens; stdout is the sequence of the *)
(* lines printed.                                                          *)
(***************************************************************************)
fieldnames ==
    { "Name", "Page URL", "Image URL", "Bio", "Instagram",
      "Instagram Followers", "TikTok", "TikTok Followers" }

columns ==
    << "user_id", "name", "category", "status", "avatar_url",
       "instagram_handle", "followers", "tiktok_handle", "tiktok_followers",
       "source_url", "bio" >>

user_id == <<"eff94470-6759-4490-9c94-8277546e8ea9">>

delete_statement == <<"DELETE FROM public.talents;">>

\* sep.join(parts)
RECURSIVE join(_, _)
join(parts, sep) ==
    IF parts = <<>> THEN <<>>
    ELSE IF Len(parts) = 1 THEN parts[1]
    ELSE parts[1] \o sep \o join(Tail(parts), sep)

\* s.replace("'", "''")
RECURSIVE escape(_)
escape(s) ==
    IF s = <<>> THEN <<>>
    ELSE (IF Head(s) = "'" THEN <<"'", "'">> ELSE <<Head(s)>>) \o escape(Tail(s))

\* generate_sql.py lines 52-57
category_of(source_url) ==
    IF Contains(source_url, "sports") THEN "Sports"
    ELSE IF Contains(source_url, "beauty") THEN "Beauty"
    ELSE IF Contains(source_url, "fashion") THEN "Fashion"
    ELSE IF Contains(source_url, "food") THEN "Food"
    ELSE IF Contains(source_url, "lifestyle") THEN "Lifestyle"
    ELSE "Influencer"

\* The same scan with beauty tested before sports.
lines_category_beauty_first(source_url) ==
    IF Contains(source_url, "beauty") THEN "Beauty"
    ELSE IF Contains(source_url, "sports") THEN "Sports"
    ELSE IF Contains(source_url, "fashion") THEN "Fashion"
    ELSE IF Contains(source_url, "food") THEN "Food"
    ELSE IF Contains(source_url, "lifestyle") THEN "Lifestyle"
    ELSE "Influencer"

\* generate_sql_lines.py lines 29-34
lines_category_of(source_url) ==
    IF Contains(source_url, "sports") THEN "Sports"
    ELSE IF Contains(source_url, "beauty") THEN "Beauty"
    ELSE IF Contains(source_url, "fashion") THEN "Fashion"
    ELSE IF Contains(source_url, "food") THEN "Food"
    ELSE IF Contains(source_url, "lifestyle") THEN "Lifestyle"
    ELSE "Influencer"

\* f"('{a}', '{b}', ...)"
tuple_of(fields) ==
    <<"(">> \o join([n \in DOMAIN fields |-> <<"'">> \o fields[n] \o <<"'">>],
                    <<", ">>) \o <<")">>

\* generate_sql.py lines 28-61
val_str_of(row) ==
    LET name         == escape(row["Name"])
        source_url   == escape(row["Page URL"])
        avatar_url   == escape(row["Image URL"])
        bio          == escape(row["Bio"])
        handle       == escape(row["Instagram"])
        followers    == escape(row["Instagram Followers"])
        tiktok       == escape(row["TikTok"])
        tiktok_count == escape(row["TikTok Followers"])
    IN  tuple_of(<< user_id, name, <<category_of(source_url)>>, <<"active">>,
                    avatar_url, handle, followers, tiktok, tiktok_count,
                    source_url, bio >>)

\* The per-row tuple with the name left unescaped.
lines_val_str_unescaped(row) ==
    tuple_of(<< user_id, row["Name"],
                <<lines_category_of(escape(row["Page URL"]))>>, <<"active">>,
                escape(row["Image URL"]), escape(row["Instagram"]),
                escape(row["Instagram Followers"]), escape(row["TikTok"]),
                escape(row["TikTok Followers"]), escape(row["Page URL"]),
                escape(row["Bio"]) >>)

\* generate_sql_lines.py lines 18-39
lines_val_str_of(row) ==
    LET name         == escape(row["Name"])
        source_url   == escape(row["Page URL"])
        avatar_url   == escape(row["Image URL"])
        bio          == escape(row["Bio"])
        handle       == escape(row["Instagram"])
        followers    == escape(row["Instagram Followers"])
        tiktok       == escape(row["TikTok"])
        tiktok_count == escape(row["TikTok Followers"])
    IN  tuple_of(<< user_id, name, <<lines_category_of(source_url)>>,
                    <<"active">>, avatar_url, handle, followers, tiktok,
                    tiktok_count, source_url, bio >>)

\* "INSERT INTO public.talents ({cols}) VALUES {vals};"
insert_statement(vals) ==
    <<"INSERT INTO public.talents (">>
        \o join([n \in DOMAIN columns |-> <<columns[n]>>], <<", ">>)
        \o <<") VALUES ">> \o vals \o <<";">>

\* generate_sql.py lines 67-69
full_query(vals) == insert_statement(join(vals, <<",\n">>))

\* A row of the CSV file.
Row(name, page_url, bio) ==
    [col \in fieldnames |->
        CASE col = "Name"                -> name
          [] col = "Page URL"            -> page_url
          [] col = "Image URL"           -> <<"https:", "//", "cdn.example", "/a.jpg">>
          [] col = "Bio"                 -> bio
          [] col = "Instagram"           -> <<"https:", "//", "instagram.com", "/a">>
          [] col = "Instagram Followers" -> <<"1", "2", ".", "3", "k">>
          [] col = "TikTok"              -> <<>>
          [] col = "TikTok Followers"    -> <<>>]

RowNames == { <<"Jane", " ", "Doe">>, <<"O", "'", "Brien">> }

RowBios == { <<>>, <<"it", "'", "s">> }

RowUrls ==
    { <<"https:", "//", "example.com", "/talent/", "jane", "-", "sports", "-",
        "beauty">>,
      <<"https:", "//", "example.com", "/talent/", "o", "'", "brien">>,
      <<"https:", "//", "example.com", "/talent/", "food">> }

CsvRows == {Row(n, u, b) : n \in RowNames, u \in RowUrls, b \in RowBios}

UrlWords ==
    { "sports", "beauty", "fashion", "food", "lifestyle", "Sports", "'", "x" }

SqlStart ==
    /\ sql_pc = "delete"
    /\ sql_row = 0
    /\ values = <<>>
    /\ category = "None"
    /\ sql_stdout = <<>>
    /\ lines_pc = "delete"
    /\ lines_row = 0
    /\ lines_category = "None"
    /\ lines_stdout = <<>>
    /\ CleanIdle
    /\ BioIdle
    /\ ListIdle
    /\ profiles_to_scrape = <<>>
    /\ LoopIdle
    /\ ScanIdle

InitSql == csv_rows \in SeqsUpTo(CsvRows, MaxRows) /\ SqlStart

\* One-row files over every short URL path.
InitCategory ==
    /\ csv_rows \in
          { << Row(<<"Jane">>, <<"https:", "//", "example.com", "/talent/">> \o u,
                   <<>>) >> : u \in SeqsUpTo(UrlWords, MaxUrlWords) }
    /\ SqlStart

\* generate_sql.py line 9
PrintDelete ==
    /\ sql_pc = "delete"
    /\ sql_stdout' = Append(sql_stdout, delete_statement)
    /\ sql_pc' = "rows"
    /\ UNCHANGED <<csv_rows, sql_row, values, category, lines_pc, lines_row,
                   lines_category, lines_stdout, notSql>>

\* generate_sql.py lines 24-62
ReadRow ==
    /\ sql_pc = "rows"
    /\ sql_row < Len(csv_rows)
    /\ category' = category_of(escape(csv_rows[sql_row + 1]["Page URL"]))
    /\ values' = Append(values, val_str_of(csv_rows[sql_row + 1]))
    /\ sql_row' = sql_row + 1
    /\ UNCHANGED <<csv_rows, sql_pc, sql_stdout, lines_pc, lines_row,
                   lines_category, lines_stdout, notSql>>

\* generate_sql.py lines 67-70
PrintQuery ==
    /\ sql_pc = "rows"
    /\ sql_row = Len(csv_rows)
    /\ sql_stdout' = Append(sql_stdout, full_query(values))
    /\ sql_pc' = "done"
    /\ UNCHANGED <<csv_rows, sql_row, values, category, lines_pc, lines_row,
                   lines_category, lines_stdout, notSql>>

\* generate_sql_lines.py line 13
LinesPrintDelete ==
    /\ lines_pc = "delete"
    /\ lines_stdout' = Append(lines_stdout, delete_statement)
    /\ lines_pc' = "rows"
    /\ UNCHANGED <<csv_rows, sql_pc, sql_row, values, category, sql_stdout,
                   lines_row, lines_category, notSql>>

\* generate_sql_lines.py lines 17-42
LinesPrintRow ==
    /\ lines_pc = "rows"
    /\ lines_row < Len(csv_rows)
    /\ lines_category' =
           lines_category_of(escape(csv_rows[lines_row + 1]["Page URL"]))
    /\ lines_stdout' =
           Append(lines_stdout,
                  insert_statement(lines_val_str_of(csv_rows[lines_row + 1])))
    /\ lines_row' = lines_row + 1
    /\ UNCHANGED <<csv_rows, sql_pc, sql_row, values, category, sql_stdout,
                   lines_pc, notSql>>

\* generate_sql_lines.py: the reader is exhausted
LinesEnd ==
    /\ lines_pc = "rows"
    /\ lines_row = Len(csv_rows)
    /\ lines_pc' = "done"
    /\ UNCHANGED <<csv_rows, sql_pc, sql_row, values, category, sql_stdout,
                   lines_row, lines_category, lines_stdout, notSql>>

NextSql ==
    PrintDelete \/ ReadRow \/ PrintQuery \/ LinesPrintDelete \/ LinesPrintRow
        \/ LinesEnd

SpecSql == InitSql /\ [][NextSql]_vars

SpecCategory == InitCategory /\ [][NextSql]_vars

IsDeletion(statement) == statement = <<"DELETE FROM public.talents;">>

IsInsertion(statement) ==
    /\ Len(statement) >= 3
    /\ statement[1] = "INSERT INTO public.talents ("
    /\ statement[Len(statement)] = ";"
    /\ \E n \in DOMAIN statement : statement[n] = ") VALUES "

\* The parts of s between the separators ",\n".
RECURSIVE SplitTuples(_)
SplitTuples(s) ==
    IF s = <<>> THEN <<>>
    ELSE LET seps == {n \in DOMAIN s : s[n] = ",\n"}
         IN  IF seps = {} THEN <<s>>
             ELSE <<SubSeq(s, 1, Least(seps) - 1)>>
                      \o SplitTuples(SubSeq(s, Least(seps) + 1, Len(s)))

\* The value tuples an insertion statement carries.
TuplesOf(statement) ==
    LET v == CHOOSE n \in DOMAIN statement : statement[n] = ") VALUES "
    IN  SplitTuples(SubSeq(statement, v + 1, Len(statement) - 1))

DeletionFirstAndOnce(out) ==
    out # <<>> =>
        /\ IsDeletion(out[1])
        /\ \A n \in 2..Len(out) : IsInsertion(out[n]) /\ ~IsDeletion(out[n])

\* C7: each renderer prints the deletion first and once; the multi-row one
\* then prints one insertion with a tuple per row, the per-row one an
\* insertion per row, and the tuples are the same in the same order.
C7_RenderingsAgree ==
    /\ DeletionFirstAndOnce(sql_stdout)
    /\ DeletionFirstAndOnce(lines_stdout)
    /\ (sql_row > 0 \/ sql_pc = "done") => sql_stdout # <<>>
    /\ (lines_row > 0 \/ lines_pc = "done") => lines_stdout # <<>>
    /\ sql_pc = "done" =>
           /\ Len(sql_stdout) = 2
           /\ TuplesOf(sql_stdout[2])
                  = [n \in 1..Len(csv_rows) |-> val_str_of(csv_rows[n])]
    /\ lines_pc = "done" =>
           /\ Len(lines_stdout) = 1 + Len(csv_rows)
           /\ \A n \in 2..Len(lines_stdout) :
                  Len(TuplesOf(lines_stdout[n])) = 1
    /\ (sql_pc = "done" /\ lines_pc = "done") =>
           TuplesOf(sql_stdout[2])
               = [n \in 1..Len(csv_rows) |-> TuplesOf(lines_stdout[n + 1])[1]]

C7_Witness ==
    /\ sql_pc = "done"
    /\ lines_pc = "done"
    /\ Len(csv_rows) = 2
    /\ csv_rows[1] # csv_rows[2]
    /\ Contains(csv_rows[1]["Name"], "'")
    /\ Len(TuplesOf(sql_stdout[2])) = 2
    /\ Len(lines_stdout) = 3

CategoryPriority == <<"sports", "beauty", "fashion", "food", "lifestyle">>

CategoryLabels == <<"Sports", "Beauty", "Fashion", "Food", "Lifestyle">>

FirstMatchCategory(url) ==
    LET hits == {n \in DOMAIN CategoryPriority : Contains(url, CategoryPriority[n])}
    IN  IF hits = {} THEN "Influencer" ELSE CategoryLabels[Least(hits)]

\* C8: the category is the label of the earliest keyword, in the order sports,
\* beauty, fashion, food, lifestyle, that occurs in the URL, "Influencer" when
\* none occurs, and it is the same in both renderers.
C8_FirstKeywordWins ==
    /\ sql_row > 0 =>
           category = FirstMatchCategory(csv_rows[sql_row]["Page URL"])
    /\ lines_row > 0 =>
           lines_category = FirstMatchCategory(csv_rows[lines_row]["Page URL"])
    /\ (sql_row > 0 /\ lines_row = sql_row) => category = lines_category
    /\ (sql_row > 0 /\ Contains(csv_rows[sql_row]["Page URL"], "sports")) =>
           category = "Sports"
    /\ (lines_row > 0 /\ Contains(csv_rows[lines_row]["Page URL"], "sports")) =>
           lines_category = "Sports"

C8_Witness ==
    /\ sql_row = 1
    /\ lines_row = 1
    /\ \E m, n \in DOMAIN csv_rows[1]["Page URL"] :
           /\ m < n
           /\ csv_rows[1]["Page URL"][m] = "beauty"
           /\ csv_rows[1]["Page URL"][n] = "sports"
    /\ category = "Sports"
    /\ lines_category = "Sports"

====
